---- MODULE Spec2Model ----
(***************************************************************************)
(* A model of the graph algorithms of src/src/algo/mod.rs and              *)
(* src/src/astar.rs.  A graph is a record [n, edges]: the nodes are        *)
(* 0 .. n-1 (their dense indices) and edges is the sequence of             *)
(* <<source, target, weight>> triples in insertion order.  Every algorithm *)
(* is an operator that computes its result the way the code does, loop by  *)
(* loop; the actions build an input graph and apply the operators to it.   *)
(***************************************************************************)
EXTENDS Integers, Sequences, FiniteSets, TLC

VARIABLES graph, ret, mst, dfs_space, tarjan

vars == <<graph, ret, mst, dfs_space, tarjan>>

(***************************************************************************)
(* Bounds of the explored inputs.                                          *)
(***************************************************************************)
MaxNodes == 3
MaxEdges == 3

\* the graphs handed to bellman_ford, and their edge weights
BfMaxNodes == 3
BfMaxEdges == 2
Weights == {-1, 1}

\* the graphs handed to astar, their edge costs and the estimates
AstarMaxNodes == 3
AstarMaxEdges == 3
Costs == {1, 3}
Estimates == {0, 3}

\* the graphs handed to astar with an admissible estimate
SimpleMaxNodes == 4
SimpleMaxEdges == 4

\* the graphs handed to min_spanning_tree, and their edge weights
MstMaxNodes == 3
MstMaxEdges == 2
MstWeights == {1, 2}

\* the graphs explored by calls that share one DfsSpace
SpaceMaxNodes == 2
SpaceMaxEdges == 3

\* the undirected simple graphs handed to maximal_cliques
CliqueMaxNodes == 4
CliqueMaxEdges == 6

\* the graphs handed one after another to one TarjanScc engine, and the
\* value of its discovery counter past which it is handed no further graph
EngineMaxNodes == 3
EngineMaxEdges == 2
EngineMaxIndex == 4

(***************************************************************************)
(* Sequence helpers.                                                       *)
(***************************************************************************)
Last(s) == s[Len(s)]

Front(s) == SubSeq(s, 1, Len(s) - 1)

Reverse(s) == [i \in 1..Len(s) |-> s[Len(s) + 1 - i]]

Range(s) == {s[i] : i \in 1..Len(s)}

(***************************************************************************)
(* The graph capability the algorithms consume.  The adjacency lists of a  *)
(* node hold its edges most recent first.                                  *)
(***************************************************************************)
Nodes(g) == 0..(g.n - 1)

node_identifiers(g) == [i \in 1..g.n |-> i - 1]

edge_references(g) == g.edges

RECURSIVE EdgesFrom(_, _, _)
EdgesFrom(es, v, end) ==
    IF es = <<>> THEN <<>>
    ELSE LET e == Last(es)
             rest == EdgesFrom(Front(es), v, end)
         IN  IF e[end] = v THEN <<e>> \o rest ELSE rest

\* the outgoing edges of v, as g.edges(v) yields them
edges(g, v) == EdgesFrom(g.edges, v, 1)

\* g.neighbors(v): the targets of v's outgoing edges
neighbors(g, v) ==
    LET es == edges(g, v)
    IN  [i \in 1..Len(es) |-> es[i][2]]

\* the graph whose edges are those of g turned around, in the same order
Reversed(g) ==
    [n |-> g.n,
     edges |-> [i \in 1..Len(g.edges) |->
                   <<g.edges[i][2], g.edges[i][1], g.edges[i][3]>>]]

(***************************************************************************)
(* The traversal workspace Dfs {stack, discovered}.                        *)
(***************************************************************************)
DfsEmpty == [stack |-> <<>>, discovered |-> {}]

DfsReset(dfs) == [stack |-> <<>>, discovered |-> {}]

DfsMoveTo(dfs, start) == [dfs EXCEPT !.stack = <<start>>]

RECURSIVE PushUndiscovered(_, _, _)
PushUndiscovered(succs, discovered, stack) ==
    IF succs = <<>> THEN stack
    ELSE PushUndiscovered(Tail(succs), discovered,
             IF Head(succs) \in discovered THEN stack
             ELSE Append(stack, Head(succs)))

\* Dfs::next: [dfs |-> the workspace after the call, node |-> the node
\* returned, or -1 for None]
RECURSIVE DfsNext(_, _)
DfsNext(g, dfs) ==
    IF dfs.stack = <<>> THEN [dfs |-> dfs, node |-> -1]
    ELSE LET node == Last(dfs.stack)
             popped == [dfs EXCEPT !.stack = Front(dfs.stack)]
         IN  IF node \notin dfs.discovered
             THEN LET disc == dfs.discovered \cup {node}
                  IN  [dfs |-> [stack |-> PushUndiscovered(neighbors(g, node),
                                                          disc, popped.stack),
                                discovered |-> disc],
                       node |-> node]
             ELSE DfsNext(g, popped)

(***************************************************************************)
(* toposort.  A result is [tag |-> "Ok", val |-> the order] or             *)
(* [tag |-> "Err", val |-> the Cycle's node]; dfs is the workspace as the  *)
(* call leaves it.                                                         *)
(***************************************************************************)
Ok(v) == [tag |-> "Ok", val |-> v]

Err(v) == [tag |-> "Err", val |-> v]

\* the expansion without its self-loop exit
ToposortExpand_noSelfLoop(succs, nx, dfs) ==
    [dfs |-> [dfs EXCEPT !.stack = PushUndiscovered(succs, dfs.discovered, @)],
     cycle |-> FALSE]

\* for succ in g.neighbors(nx): the self-loop exit, or push the undiscovered
RECURSIVE ToposortExpand(_, _, _)
ToposortExpand(succs, nx, dfs) ==
    IF succs = <<>> THEN [dfs |-> dfs, cycle |-> FALSE]
    ELSE LET succ == Head(succs)
         IN  IF succ = nx THEN [dfs |-> dfs, cycle |-> TRUE]
             ELSE ToposortExpand(Tail(succs), nx,
                      IF succ \notin dfs.discovered
                      THEN [dfs EXCEPT !.stack = Append(@, succ)]
                      ELSE dfs)

\* while let Some(&nx) = dfs.stack.last()
RECURSIVE ToposortWhile(_, _)
ToposortWhile(g, st) ==
    IF st.dfs.stack = <<>> THEN st
    ELSE LET nx == Last(st.dfs.stack)
         IN  IF nx \notin st.dfs.discovered
             THEN LET r == ToposortExpand(neighbors(g, nx), nx,
                               [st.dfs EXCEPT !.discovered = @ \cup {nx}])
                  IN  IF r.cycle
                      THEN [st EXCEPT !.dfs = r.dfs, !.cycle = nx]
                      ELSE ToposortWhile(g, [st EXCEPT !.dfs = r.dfs])
             ELSE LET popped == [st EXCEPT !.dfs.stack = Front(@)]
                  IN  ToposortWhile(g,
                          IF nx \notin st.finished
                          THEN [popped EXCEPT !.finished = @ \cup {nx},
                                              !.finish_stack = Append(@, nx)]
                          ELSE popped)

\* for i in g.node_identifiers(): the first phase
RECURSIVE ToposortPhase1(_, _, _)
ToposortPhase1(g, ids, st) ==
    IF ids = <<>> \/ st.cycle # -1 THEN st
    ELSE LET i == Head(ids)
         IN  IF i \in st.dfs.discovered
             THEN ToposortPhase1(g, Tail(ids), st)
             ELSE ToposortPhase1(g, Tail(ids),
                      ToposortWhile(g, [st EXCEPT !.dfs.stack = Append(@, i)]))

\* the walk of the second phase over g itself instead of Reversed(g)
RECURSIVE ToposortReverseWalk_forward(_, _, _)
ToposortReverseWalk_forward(g, dfs, cycle) ==
    LET r == DfsNext(g, dfs)
    IN  IF r.node = -1 THEN [dfs |-> r.dfs, cycle |-> -1]
        ELSE IF cycle THEN [dfs |-> r.dfs, cycle |-> r.node]
        ELSE ToposortReverseWalk_forward(g, r.dfs, TRUE)

\* while let Some(j) = dfs.next(Reversed(g)): the second node found is the
\* Cycle's node
RECURSIVE ToposortReverseWalk(_, _, _)
ToposortReverseWalk(g, dfs, cycle) ==
    LET r == DfsNext(Reversed(g), dfs)
    IN  IF r.node = -1 THEN [dfs |-> r.dfs, cycle |-> -1]
        ELSE IF cycle THEN [dfs |-> r.dfs, cycle |-> r.node]
        ELSE ToposortReverseWalk(g, r.dfs, TRUE)

\* the second phase left out: no order is ever refused
ToposortPhase2_unchecked(g, order, dfs) == [dfs |-> dfs, cycle |-> -1]

\* for &i in &finish_stack: the second phase
RECURSIVE ToposortPhase2(_, _, _)
ToposortPhase2(g, order, dfs) ==
    IF order = <<>> THEN [dfs |-> dfs, cycle |-> -1]
    ELSE LET r == ToposortReverseWalk(g, DfsMoveTo(dfs, Head(order)), FALSE)
         IN  IF r.cycle # -1 THEN r
             ELSE ToposortPhase2(g, Tail(order), r.dfs)

toposort(g, space) ==
    LET p1 == ToposortPhase1(g, node_identifiers(g),
                  [dfs |-> DfsReset(space), finished |-> {},
                   finish_stack |-> <<>>, cycle |-> -1])
    IN  IF p1.cycle # -1 THEN [res |-> Err(p1.cycle), dfs |-> p1.dfs]
        ELSE LET finish_stack == Reverse(p1.finish_stack)
                 p2 == ToposortPhase2(g, finish_stack, DfsReset(p1.dfs))
             IN  IF p2.cycle # -1 THEN [res |-> Err(p2.cycle), dfs |-> p2.dfs]
                 ELSE [res |-> Ok(finish_stack), dfs |-> p2.dfs]

(***************************************************************************)
(* The post-order traversal DfsPostOrder {stack, discovered, finished}.    *)
(***************************************************************************)
DfsPostOrderEmpty == [stack |-> <<>>, discovered |-> {}, finished |-> {}]

\* DfsPostOrder::next: the next node in post-order, or -1 for None
RECURSIVE DfsPostOrderNext(_, _)
DfsPostOrderNext(g, dfs) ==
    IF dfs.stack = <<>> THEN [dfs |-> dfs, node |-> -1]
    ELSE LET nx == Last(dfs.stack)
         IN  IF nx \notin dfs.discovered
             THEN LET disc == dfs.discovered \cup {nx}
                  IN  DfsPostOrderNext(g,
                          [dfs EXCEPT !.discovered = disc,
                                      !.stack = PushUndiscovered(
                                                    neighbors(g, nx), disc, @)])
             ELSE LET popped == [dfs EXCEPT !.stack = Front(@)]
                  IN  IF nx \notin dfs.finished
                      THEN [dfs |-> [popped EXCEPT !.finished = @ \cup {nx}],
                            node |-> nx]
                      ELSE DfsPostOrderNext(g, popped)

(***************************************************************************)
(* kosaraju_scc.                                                           *)
(***************************************************************************)
\* while let Some(nx) = dfs.next(Reversed(g)) { finish_order.push(nx) }
RECURSIVE KosarajuFinish(_, _, _)
KosarajuFinish(g, dfs, finish_order) ==
    LET r == DfsPostOrderNext(Reversed(g), dfs)
    IN  IF r.node = -1 THEN [dfs |-> r.dfs, finish_order |-> finish_order]
        ELSE KosarajuFinish(g, r.dfs, Append(finish_order, r.node))

\* the first phase: finishing times of the reversed graph
RECURSIVE KosarajuPhase1(_, _, _, _)
KosarajuPhase1(g, ids, dfs, finish_order) ==
    IF ids = <<>> THEN finish_order
    ELSE LET i == Head(ids)
         IN  IF i \in dfs.discovered
             THEN KosarajuPhase1(g, Tail(ids), dfs, finish_order)
             ELSE LET r == KosarajuFinish(g, [dfs EXCEPT !.stack = <<i>>],
                                          finish_order)
                  IN  KosarajuPhase1(g, Tail(ids), r.dfs, r.finish_order)

\* while let Some(nx) = dfs.next(g) { scc.push(nx) }
RECURSIVE KosarajuCollect(_, _, _)
KosarajuCollect(g, dfs, scc) ==
    LET r == DfsNext(g, dfs)
    IN  IF r.node = -1 THEN [dfs |-> r.dfs, scc |-> scc]
        ELSE KosarajuCollect(g, r.dfs, Append(scc, r.node))

\* the second phase: order is the finish order, latest first
RECURSIVE KosarajuPhase2(_, _, _, _)
KosarajuPhase2(g, order, dfs, sccs) ==
    IF order = <<>> THEN sccs
    ELSE LET i == Head(order)
         IN  IF i \in dfs.discovered
             THEN KosarajuPhase2(g, Tail(order), dfs, sccs)
             ELSE LET r == KosarajuCollect(g, DfsMoveTo(dfs, i), <<>>)
                  IN  KosarajuPhase2(g, Tail(order), r.dfs,
                                     Append(sccs, r.scc))

\* the two passes with their directions exchanged: forward first
kosaraju_scc_swapped(g) ==
    LET finish_order == KosarajuPhase1(Reversed(g), node_identifiers(g),
                                       DfsPostOrderEmpty, <<>>)
    IN  KosarajuPhase2(Reversed(g), Reverse(finish_order), DfsEmpty, <<>>)

kosaraju_scc(g) ==
    LET finish_order == KosarajuPhase1(g, node_identifiers(g),
                                       DfsPostOrderEmpty, <<>>)
    IN  KosarajuPhase2(g, Reverse(finish_order), DfsEmpty, <<>>)

(***************************************************************************)
(* TarjanScc.  The engine is [index, nodes, stack]; nodes maps a dense     *)
(* index to its NodeData [index, lowlink, on_stack], index -1 being None.  *)
(* out collects the slices the callback f is given.                        *)
(***************************************************************************)
\* !0, the lowlink of a node not yet visited (usize::MAX, cut to 31 bits)
NoLowlink == 2147483647

Min(a, b) == IF a < b THEN a ELSE b

TarjanNew == [index |-> 0, nodes |-> <<>>, stack |-> <<>>]

NodeDataNew == [index |-> -1, lowlink |-> NoLowlink, on_stack |-> FALSE]

\* stack.iter().rposition(..): the position of v from the top, every node
\* passed on the way losing its on_stack mark
RECURSIVE TarjanRposition(_, _, _)
TarjanRposition(stack, v, nodes) ==
    LET w == Last(stack)
        cleared == [nodes EXCEPT ![w].on_stack = FALSE]
    IN  IF w = v THEN [start |-> Len(stack), nodes |-> cleared]
        ELSE TarjanRposition(Front(stack), v, cleared)

\* if v is a root node, pop the stack and generate an SCC
TarjanPop(v, st) ==
    IF st.nodes[v].lowlink = st.nodes[v].index
    THEN LET r == TarjanRposition(st.stack, v, st.nodes)
         IN  [st EXCEPT !.nodes = r.nodes,
                        !.out = Append(@, SubSeq(st.stack, r.start,
                                                 Len(st.stack))),
                        !.stack = SubSeq(st.stack, 1, r.start - 1)]
    ELSE st

RECURSIVE TarjanVisit(_, _, _)
RECURSIVE TarjanNeighbors(_, _, _, _)

\* the neighbour loop without the lowlink update for a successor on the stack
RECURSIVE TarjanNeighbors_noBackEdge(_, _, _, _)
TarjanNeighbors_noBackEdge(g, v, succs, st) ==
    IF succs = <<>> THEN st
    ELSE LET w == Head(succs)
         IN  IF st.nodes[w].index = -1
             THEN LET s1 == TarjanVisit(g, w, st)
                  IN  TarjanNeighbors_noBackEdge(g, v, Tail(succs),
                          [s1 EXCEPT !.nodes[v].lowlink =
                                         Min(@, s1.nodes[w].lowlink)])
             ELSE TarjanNeighbors_noBackEdge(g, v, Tail(succs), st)

\* for w in g.neighbors(v)
TarjanNeighbors(g, v, succs, st) ==
    IF succs = <<>> THEN st
    ELSE LET w == Head(succs)
         IN  IF st.nodes[w].index = -1
             THEN LET s1 == TarjanVisit(g, w, st)
                  IN  TarjanNeighbors(g, v, Tail(succs),
                          [s1 EXCEPT !.nodes[v].lowlink =
                                         Min(@, s1.nodes[w].lowlink)])
             ELSE TarjanNeighbors(g, v, Tail(succs),
                      IF st.nodes[w].on_stack
                      THEN [st EXCEPT !.nodes[v].lowlink =
                                          Min(@, st.nodes[w].index)]
                      ELSE st)

TarjanVisit(g, v, st) ==
    IF st.nodes[v].index # -1 THEN st
    ELSE LET v_index == st.index
             s1 == [st EXCEPT !.nodes[v] = [index |-> v_index,
                                            lowlink |-> v_index,
                                            on_stack |-> TRUE],
                              !.stack = Append(@, v),
                              !.index = v_index + 1]
         IN  TarjanPop(v, TarjanNeighbors(g, v, neighbors(g, v), s1))

RECURSIVE TarjanVisitAll(_, _, _)
TarjanVisitAll(g, ids, st) ==
    IF ids = <<>> THEN st
    ELSE TarjanVisitAll(g, Tail(ids), TarjanVisit(g, Head(ids), st))

\* a run whose nodes.resize is not preceded by nodes.clear: the records of
\* the run before stay, new ones fill the rest
TarjanRun_noClear(engine, g) ==
    LET st == TarjanVisitAll(g, node_identifiers(g),
                  [index |-> engine.index,
                   nodes |-> [i \in Nodes(g) |->
                                 IF i \in DOMAIN engine.nodes
                                 THEN engine.nodes[i] ELSE NodeDataNew],
                   stack |-> engine.stack,
                   out |-> <<>>])
    IN  [engine |-> [index |-> st.index, nodes |-> st.nodes,
                     stack |-> st.stack],
         out |-> st.out]

\* TarjanScc::run: the engine after the run and the components in the
\* order f received them
TarjanRun(engine, g) ==
    LET st == TarjanVisitAll(g, node_identifiers(g),
                  [index |-> engine.index,
                   nodes |-> [i \in Nodes(g) |-> NodeDataNew],
                   stack |-> engine.stack,
                   out |-> <<>>])
    IN  [engine |-> [index |-> st.index, nodes |-> st.nodes,
                     stack |-> st.stack],
         out |-> st.out]

\* the components in the order opposite to the one the engine emits
tarjan_scc_reversed(g) == Reverse(TarjanRun(TarjanNew, g).out)

tarjan_scc(g) ==
    LET out == TarjanRun(TarjanNew, g).out
    IN  [i \in 1..Len(out) |-> Reverse(out[i])]

(***************************************************************************)
(* bellman_ford.  Weights are integers; Infinite stands for                *)
(* FloatMeasure::infinite(), which addition leaves as it is.  A            *)
(* predecessor of -1 is None.                                              *)
(***************************************************************************)
Infinite == 1000000

Plus(d, w) == IF d = Infinite THEN Infinite ELSE d + w

\* the relaxation that also takes an edge giving an equal distance
RECURSIVE BfRelaxEdges_onEqual(_, _)
BfRelaxEdges_onEqual(es, st) ==
    IF es = <<>> THEN st
    ELSE LET i == Head(es)[1]
             j == Head(es)[2]
             w == Head(es)[3]
         IN  BfRelaxEdges_onEqual(Tail(es),
                 IF Plus(st.distance[i], w) <= st.distance[j]
                 THEN [st EXCEPT !.distance[j] = Plus(st.distance[i], w),
                                 !.predecessor[j] = i,
                                 !.did_update = TRUE]
                 ELSE st)

\* for edge in g.edges(i): relax the edge (i, j, w)
RECURSIVE BfRelaxEdges(_, _)
BfRelaxEdges(es, st) ==
    IF es = <<>> THEN st
    ELSE LET i == Head(es)[1]
             j == Head(es)[2]
             w == Head(es)[3]
         IN  BfRelaxEdges(Tail(es),
                 IF Plus(st.distance[i], w) < st.distance[j]
                 THEN [st EXCEPT !.distance[j] = Plus(st.distance[i], w),
                                 !.predecessor[j] = i,
                                 !.did_update = TRUE]
                 ELSE st)

\* for i in g.node_identifiers(): one sweep over all edges
RECURSIVE BfSweep(_, _, _)
BfSweep(g, ids, st) ==
    IF ids = <<>> THEN st
    ELSE BfSweep(g, Tail(ids), BfRelaxEdges(edges(g, Head(ids)), st))

\* the scan that stops one sweep short of |V| - 1
RECURSIVE BfSweeps_oneShort(_, _, _)
BfSweeps_oneShort(g, left, st) ==
    IF left <= 1 THEN st
    ELSE LET swept == BfSweep(g, node_identifiers(g),
                              [st EXCEPT !.did_update = FALSE])
         IN  IF ~swept.did_update THEN swept
             ELSE BfSweeps_oneShort(g, left - 1, swept)

\* for _ in 1..g.node_count(): the sweeps left, ended early by a sweep
\* without update
RECURSIVE BfSweeps(_, _, _)
BfSweeps(g, left, st) ==
    IF left = 0 THEN st
    ELSE LET swept == BfSweep(g, node_identifiers(g),
                              [st EXCEPT !.did_update = FALSE])
         IN  IF ~swept.did_update THEN swept
             ELSE BfSweeps(g, left - 1, swept)

\* the last sweep: can an edge of i still be relaxed
BfRelaxable(g, distance) ==
    \E i \in Nodes(g) :
        \E k \in 1..Len(edges(g, i)) :
            LET edge == edges(g, i)[k]
            IN  Plus(distance[i], edge[3]) < distance[edge[2]]

bellman_ford(g, source) ==
    LET st == BfSweeps(g, g.n - 1,
                  [distance |-> [i \in Nodes(g) |->
                                    IF i = source THEN 0 ELSE Infinite],
                   predecessor |-> [i \in Nodes(g) |-> -1],
                   did_update |-> FALSE])
    IN  IF BfRelaxable(g, st.distance) THEN Err("NegativeCycle")
        ELSE Ok([distance |-> st.distance, predecessor |-> st.predecessor])

(***************************************************************************)
(* astar.  The search state is [visited, visit_next, scores, came_from]:   *)
(* visit_next holds the heap's entries <<estimate, node>>, scores and      *)
(* came_from map a node to its entry, -1 standing for no entry.  MinScored *)
(* orders the heap by the estimate alone, so which of several least        *)
(* entries pop() yields is left open: astar is the set of the outcomes.    *)
(***************************************************************************)
None == [tag |-> "None"]

Some(path) == [tag |-> "Some", path |-> path]

\* a walk over came_from that has not ended after as many steps as nodes
Endless == [tag |-> "Endless"]

\* PathTracker::reconstruct_path_to, before path.reverse()
RECURSIVE PathBackFrom(_, _, _, _)
PathBackFrom(came_from, current, path, left) ==
    IF came_from[current] = -1 THEN Some(path)
    ELSE IF left = 0 THEN Endless
    ELSE PathBackFrom(came_from, came_from[current],
                      Append(path, came_from[current]), left - 1)

\* the path as collected, goal first
reconstruct_path_to_unreversed(came_from, last, n) ==
    PathBackFrom(came_from, last, <<last>>, n)

reconstruct_path_to(came_from, last, n) ==
    LET r == PathBackFrom(came_from, last, <<last>>, n)
    IN  IF r.tag = "Some" THEN Some(Reverse(r.path)) ELSE r

\* for edge in graph.edges(node)
RECURSIVE AstarRelax(_, _, _, _, _)
AstarRelax(es, node, node_score, h, st) ==
    IF es = <<>> THEN st
    ELSE LET next == Head(es)[2]
             next_score == node_score + Head(es)[3]
             old_score == st.scores[next]
         IN  IF next \in st.visited
             THEN AstarRelax(Tail(es), node, node_score, h, st)
             ELSE IF old_score = -1 \/ next_score < old_score
             THEN AstarRelax(Tail(es), node, node_score, h,
                      [st EXCEPT !.scores[next] = next_score,
                                 !.came_from[next] = node,
                                 !.visit_next =
                                     Append(@, <<next_score + h[next], next>>)])
             ELSE AstarRelax(Tail(es), node, node_score, h,
                      [st EXCEPT !.visit_next =
                                     Append(@, <<old_score + h[next], next>>)])

RemoveAt(s, i) == SubSeq(s, 1, i - 1) \o SubSeq(s, i + 1, Len(s))

\* the heap's entries with the least estimate, one position for each
LeastEntries(heap) ==
    {i \in 1..Len(heap) :
        /\ \A j \in 1..Len(heap) : heap[i][1] <= heap[j][1]
        /\ \A j \in 1..(i - 1) : heap[j] # heap[i]}

\* while let Some(MinScored(_, node)) = visit_next.pop()
RECURSIVE AstarLoop(_, _, _, _)
AstarLoop(g, goals, h, st) ==
    IF st.visit_next = <<>> THEN {None}
    ELSE UNION {
        LET node == st.visit_next[i][2]
            popped == [st EXCEPT !.visit_next = RemoveAt(@, i)]
        IN  IF node \in goals
            THEN {reconstruct_path_to(st.came_from, node, g.n)}
            ELSE IF node \in st.visited
            THEN AstarLoop(g, goals, h, popped)
            ELSE AstarLoop(g, goals, h,
                     AstarRelax(edges(g, node), node, st.scores[node], h,
                                [popped EXCEPT !.visited = @ \cup {node}]))
        : i \in LeastEntries(st.visit_next)}

\* is_goal is membership in goals, edge_cost the edge's weight, and
\* estimate_cost the function h
astar(g, start, goals, h) ==
    AstarLoop(g, goals, h,
        [visited |-> {},
         visit_next |-> <<<<h[start], start>>>>,
         scores |-> [i \in Nodes(g) |-> IF i = start THEN 0 ELSE -1],
         came_from |-> [i \in Nodes(g) |-> -1]])

(***************************************************************************)
(* min_spanning_tree and the iterator MinSpanningTree.  UnionFind is the   *)
(* map from a dense index to the representative of its set.  sort_edges    *)
(* holds the heap's entries <<weight, source, target>>; MinScored orders   *)
(* them by weight alone, so pop() may yield any entry of least weight and  *)
(* next() is the set of its outcomes.                                      *)
(***************************************************************************)
UnionFindNew(n) == [i \in 0..(n - 1) |-> i]

\* UnionFind::union: did a merge occur, and the sets after it.  (Comparing
\* the new map makes TLC build it once rather than at each of its uses.)
Union(uf, a, b) ==
    LET joined == [i \in DOMAIN uf |-> IF uf[i] = uf[b] THEN uf[a] ELSE uf[i]]
    IN  [merged |-> uf[a] # uf[b],
         uf |-> IF joined = joined THEN joined ELSE uf]

NodeElement(weight) == [type |-> "Node", weight |-> weight]

EdgeElement(source, target, weight) ==
    [type |-> "Edge", source |-> source, target |-> target, weight |-> weight]

\* the weight of node v; the graphs explored carry the node's index
NodeWeight(v) == v

\* the iterator created with no node left to enumerate
min_spanning_tree_noNodes(g) ==
    [created |-> TRUE,
     node_ids |-> [some |-> FALSE, rest |-> <<>>],
     subgraphs |-> UnionFindNew(g.n),
     sort_edges |-> [i \in 1..Len(edge_references(g)) |->
                        <<edge_references(g)[i][3], edge_references(g)[i][1],
                          edge_references(g)[i][2]>>],
     node_map |-> [i \in Nodes(g) |-> -1],
     node_count |-> 0]

min_spanning_tree(g) ==
    [created |-> TRUE,
     node_ids |-> [some |-> TRUE, rest |-> node_identifiers(g)],
     subgraphs |-> UnionFindNew(g.n),
     sort_edges |-> [i \in 1..Len(edge_references(g)) |->
                        <<edge_references(g)[i][3], edge_references(g)[i][1],
                          edge_references(g)[i][2]>>],
     node_map |-> [i \in Nodes(g) |-> -1],
     node_count |-> 0]

\* BinaryHeap::pop on entries in the reversed order: the greatest first
GreatestEntries(heap) ==
    {i \in 1..Len(heap) :
        /\ \A j \in 1..Len(heap) : heap[i][1] >= heap[j][1]
        /\ \A j \in 1..(i - 1) : heap[j] # heap[i]}

\* BinaryHeap::pop of MinScored entries: the positions pop() may take
PopEntries(heap) == LeastEntries(heap)

\* while let Some(MinScored(score, (a, b))) = self.sort_edges.pop();
\* an item of Panic is the panic "Edge references unknown node"
RECURSIVE MstPopEdges(_)
MstPopEdges(it) ==
    IF it.sort_edges = <<>> THEN {[it |-> it, item |-> None]}
    ELSE UNION {
        LET score == it.sort_edges[i][1]
            a == it.sort_edges[i][2]
            b == it.sort_edges[i][3]
            u == Union(it.subgraphs, a, b)
            popped == [it EXCEPT !.sort_edges = RemoveAt(@, i),
                                 !.subgraphs = u.uf]
        IN  IF u.merged
            THEN IF it.node_map[a] # -1 /\ it.node_map[b] # -1
                 THEN {[it |-> popped,
                        item |-> EdgeElement(it.node_map[a], it.node_map[b],
                                             score)]}
                 ELSE {[it |-> popped, item |-> [type |-> "Panic"]]}
            ELSE MstPopEdges(popped)
        : i \in PopEntries(it.sort_edges)}

\* MinSpanningTree::next: the iterator after the call and the item returned
MstNext(it) ==
    IF it.node_ids.some /\ it.node_ids.rest # <<>>
    THEN LET node == Head(it.node_ids.rest)
         IN  {[it |-> [it EXCEPT !.node_ids.rest = Tail(@),
                                 !.node_map[node] = it.node_count,
                                 !.node_count = @ + 1],
               item |-> NodeElement(NodeWeight(node))]}
    ELSE MstPopEdges([it EXCEPT !.node_ids = [some |-> FALSE, rest |-> <<>>]])

(***************************************************************************)
(* condensation.  The condensed graph is [n, edges, weights]: weights maps *)
(* a new node to the list of the node weights it collects, a node's weight *)
(* being its index.                                                        *)
(***************************************************************************)
\* Graph::add_edge
GraphAddEdge(g, a, b, w) == [g EXCEPT !.edges = Append(@, <<a, b, w>>)]

\* Graph::update_edge on a directed graph: the weight of the edge a -> b is
\* replaced if there is one, and the edge is added otherwise
update_edge(g, a, b, w) ==
    IF \E i \in 1..Len(g.edges) : g.edges[i][1] = a /\ g.edges[i][2] = b
    THEN LET ix == CHOOSE i \in 1..Len(g.edges) :
                       g.edges[i][1] = a /\ g.edges[i][2] = b
         IN  [g EXCEPT !.edges[ix] = <<a, b, w>>]
    ELSE GraphAddEdge(g, a, b, w)

\* for comp in sccs: the new node of every old node, in a graph of one node
\* for each component
CondensationNodeMap(g, sccs) ==
    [nix \in Nodes(g) |->
        (CHOOSE k \in 1..Len(sccs) :
            \E j \in 1..Len(sccs[k]) : sccs[k][j] = nix) - 1]

\* for (nix, node) in nodes.into_iter().enumerate()
RECURSIVE CondensationWeights(_, _, _)
CondensationWeights(ids, node_map, weights) ==
    IF ids = <<>> THEN weights
    ELSE CondensationWeights(Tail(ids), node_map,
             [weights EXCEPT ![node_map[Head(ids)]] = Append(@, Head(ids))])

\* the edge loop that adds an edge without asking for one in place
RECURSIVE CondensationEdges_added(_, _, _, _)
CondensationEdges_added(es, node_map, make_acyclic, condensed) ==
    IF es = <<>> THEN condensed
    ELSE LET source == node_map[Head(es)[1]]
             target == node_map[Head(es)[2]]
         IN  CondensationEdges_added(Tail(es), node_map, make_acyclic,
                 IF make_acyclic /\ source = target THEN condensed
                 ELSE GraphAddEdge(condensed, source, target, Head(es)[3]))

\* for edge in edges
RECURSIVE CondensationEdges(_, _, _, _)
CondensationEdges(es, node_map, make_acyclic, condensed) ==
    IF es = <<>> THEN condensed
    ELSE LET source == node_map[Head(es)[1]]
             target == node_map[Head(es)[2]]
         IN  CondensationEdges(Tail(es), node_map, make_acyclic,
                 IF make_acyclic
                 THEN IF source # target
                      THEN update_edge(condensed, source, target, Head(es)[3])
                      ELSE condensed
                 ELSE GraphAddEdge(condensed, source, target, Head(es)[3]))

condensation(g, make_acyclic) ==
    LET sccs == kosaraju_scc(g)
        node_map == CondensationNodeMap(g, sccs)
        weights == CondensationWeights(node_identifiers(g), node_map,
                       [k \in 0..(Len(sccs) - 1) |-> <<>>])
    IN  CondensationEdges(g.edges, node_map, make_acyclic,
            [n |-> Len(sccs), edges |-> <<>>, weights |-> weights])

(***************************************************************************)
(* An undirected graph keeps each edge once, as <<a, b, w>>, and yields it *)
(* from both of its ends.                                                  *)
(***************************************************************************)
\* g.neighbors(v) of an undirected graph: the other ends of v's outgoing
\* edges, then those of its incoming edges, a self-loop counted once
neighbors_undirected(g, v) ==
    LET outgoing == EdgesFrom(g.edges, v, 1)
        incoming == SelectSeq(EdgesFrom(g.edges, v, 2), LAMBDA e : e[1] # v)
    IN  [i \in 1..Len(outgoing) |-> outgoing[i][2]]
            \o [i \in 1..Len(incoming) |-> incoming[i][1]]

\* GetAdjacencyMatrix::is_adjacent of an undirected graph
is_adjacent(g, a, b) ==
    \E i \in 1..Len(g.edges) :
        \/ g.edges[i][1] = a /\ g.edges[i][2] = b
        \/ g.edges[i][1] = b /\ g.edges[i][2] = a

(***************************************************************************)
(* maximal_cliques.  r, p and x are HashSets: the order in which p is      *)
(* iterated is left open, so the pivot is any vertex of p of the greatest  *)
(* degree and todo is taken in any order.  bron_kerbosch_pivot is the set  *)
(* of the vectors of cliques the call may return.                          *)
(***************************************************************************)
\* pick pivot to be vertex with max degree
BkPivots(g, p) ==
    {u \in p : \A v \in p :
        Len(neighbors_undirected(g, v)) <= Len(neighbors_undirected(g, u))}

\* the branching set that leaves the pivot out with its neighbours
BkTodoOf_noPivot(g, u, p) ==
    {v \in p : ~is_adjacent(g, u, v) \/ ~is_adjacent(g, v, u)} \ {u}

\* skip neighbors of pivot
BkTodoOf(g, u, p) ==
    {v \in p : u = v \/ ~is_adjacent(g, u, v) \/ ~is_adjacent(g, v, u)}

\* while let Some(w) = walker.next(): the neighbours of v kept by the filter
BkNeighbors(g, v) ==
    {w \in Range(neighbors_undirected(g, v)) : is_adjacent(g, w, v)}

RECURSIVE bron_kerbosch_pivot(_, _, _, _)
RECURSIVE BkTodo(_, _, _, _, _, _)
\* while let Some(v) = todo.pop()
BkTodo(g, r, p, x, todo, cliques) ==
    IF todo = {} THEN {cliques}
    ELSE UNION {
        LET nbrs == BkNeighbors(g, v)
            next_p == (p \ {v}) \cap nbrs
            next_x == x \cap nbrs
        IN  UNION {BkTodo(g, r, p \ {v}, x \cup {v}, todo \ {v},
                          cliques \o found) :
                     found \in bron_kerbosch_pivot(g, r \cup {v}, next_p, next_x)}
        : v \in todo}

bron_kerbosch_pivot(g, r, p, x) ==
    IF p = {} THEN {IF x = {} THEN <<r>> ELSE <<>>}
    ELSE UNION {BkTodo(g, r, p, x, BkTodoOf(g, u, p), <<>>) :
                  u \in BkPivots(g, p)}

maximal_cliques(g) == bron_kerbosch_pivot(g, {}, Range(node_identifiers(g)), {})

(***************************************************************************)
(* is_bipartite_undirected.  The graph handed in is [n, edges, directed]:  *)
(* g.neighbors(node) is that of a directed or of an undirected graph.  The *)
(* state of the search is [red, blue, stack] and its outcome is absent     *)
(* (Running), a returned value, or a panic.                                *)
(***************************************************************************)
Typed(g, directed) == [n |-> g.n, edges |-> g.edges, directed |-> directed]

\* g.neighbors(node), by the graph's edge type
neighbors_of(g, node) ==
    IF g.directed THEN neighbors(g, node) ELSE neighbors_undirected(g, node)

Running == [tag |-> "running"]

Returned(val) == [tag |-> "return", val |-> val]

Panicked(msg) == [tag |-> "panic", msg |-> msg]

\* the neighbour loop that compares the colours of red nodes only
RECURSIVE BipartiteNeighbours_redOnly(_, _, _, _)
BipartiteNeighbours_redOnly(ns, is_red, is_blue, st) ==
    IF ns = <<>> THEN st
    ELSE LET neighbour == Head(ns)
             is_neigbour_red == neighbour \in st.red
             is_neigbour_blue == neighbour \in st.blue
         IN  IF is_red /\ is_neigbour_red
             THEN [st EXCEPT !.out = Returned(FALSE)]
             ELSE IF ~is_neigbour_red /\ ~is_neigbour_blue
             THEN BipartiteNeighbours_redOnly(Tail(ns), is_red, is_blue,
                      [st EXCEPT !.blue = IF is_red THEN @ \cup {neighbour} ELSE @,
                                 !.red = IF is_red THEN @ ELSE @ \cup {neighbour},
                                 !.stack = Append(@, neighbour)])
             ELSE BipartiteNeighbours_redOnly(Tail(ns), is_red, is_blue, st)

\* for neighbour in g.neighbors(node)
RECURSIVE BipartiteNeighbours(_, _, _, _)
BipartiteNeighbours(ns, is_red, is_blue, st) ==
    IF ns = <<>> THEN st
    ELSE LET neighbour == Head(ns)
             is_neigbour_red == neighbour \in st.red
             is_neigbour_blue == neighbour \in st.blue
         IN  IF (is_red /\ is_neigbour_red) \/ (is_blue /\ is_neigbour_blue)
             THEN [st EXCEPT !.out = Returned(FALSE)]
             ELSE IF ~is_neigbour_red /\ ~is_neigbour_blue
             THEN IF is_red /\ ~is_blue
                  THEN BipartiteNeighbours(Tail(ns), is_red, is_blue,
                           [st EXCEPT !.blue = @ \cup {neighbour},
                                      !.stack = Append(@, neighbour)])
                  ELSE IF ~is_red /\ is_blue
                  THEN BipartiteNeighbours(Tail(ns), is_red, is_blue,
                           [st EXCEPT !.red = @ \cup {neighbour},
                                      !.stack = Append(@, neighbour)])
                  ELSE [st EXCEPT !.out = Panicked("Invariant doesn't hold")]
             ELSE BipartiteNeighbours(Tail(ns), is_red, is_blue, st)

\* while let Some(node) = stack.pop_front()
RECURSIVE BipartiteLoop(_, _)
BipartiteLoop(g, st) ==
    IF st.stack = <<>> THEN Returned(TRUE)
    ELSE LET node == Head(st.stack)
             is_red == node \in st.red
             is_blue == node \in st.blue
         IN  IF is_red = is_blue THEN Panicked("assertion failed")
             ELSE LET after == BipartiteNeighbours(neighbors_of(g, node),
                                   is_red, is_blue,
                                   [st EXCEPT !.stack = Tail(@)])
                  IN  IF after.out # Running THEN after.out
                      ELSE BipartiteLoop(g, after)

is_bipartite_undirected(g, start) ==
    BipartiteLoop(g, [red |-> {start}, blue |-> {}, stack |-> <<start>>,
                      out |-> Running])

(***************************************************************************)
(* connected_components and is_cyclic_undirected, both over the edge list  *)
(* and a UnionFind of the node indices.                                    *)
(***************************************************************************)
\* UnionFind::into_labeling: the representative of every index
into_labeling(uf) == [i \in 1..Cardinality(DOMAIN uf) |-> uf[i - 1]]

\* where x goes into the ascending sequence s
RECURSIVE Insert(_, _)
Insert(s, x) ==
    IF s = <<>> THEN <<x>>
    ELSE IF x <= Head(s) THEN <<x>> \o s
    ELSE <<Head(s)>> \o Insert(Tail(s), x)

\* the labels left as they are
Sort_asIs(s) == s

\* labels.sort()
RECURSIVE Sort(_)
Sort(s) == IF s = <<>> THEN <<>> ELSE Insert(Sort(Tail(s)), Head(s))

\* labels.dedup(): of equal elements in a row the first is kept
RECURSIVE Dedup(_)
Dedup(s) ==
    IF Len(s) <= 1 THEN s
    ELSE IF s[1] = s[2] THEN Dedup(Tail(s))
    ELSE <<Head(s)>> \o Dedup(Tail(s))

\* for edge in g.edge_references(): union the two vertices of the edge
RECURSIVE UnionEdges(_, _)
UnionEdges(es, vertex_sets) ==
    IF es = <<>> THEN vertex_sets
    ELSE UnionEdges(Tail(es), Union(vertex_sets, Head(es)[1], Head(es)[2]).uf)

connected_components(g) ==
    LET vertex_sets == UnionEdges(edge_references(g), UnionFindNew(g.n))
    IN  Len(Dedup(Sort(into_labeling(vertex_sets))))

\* the edge loop that passes over an edge from a node to itself
RECURSIVE IsCyclicEdges_skipLoops(_, _)
IsCyclicEdges_skipLoops(es, edge_sets) ==
    IF es = <<>> THEN FALSE
    ELSE LET u == Union(edge_sets, Head(es)[1], Head(es)[2])
         IN  IF ~u.merged /\ Head(es)[1] # Head(es)[2] THEN TRUE
             ELSE IsCyclicEdges_skipLoops(Tail(es), u.uf)

\* for edge in g.edge_references(): if they were already the same, then we
\* have a cycle
RECURSIVE IsCyclicEdges(_, _)
IsCyclicEdges(es, edge_sets) ==
    IF es = <<>> THEN FALSE
    ELSE LET u == Union(edge_sets, Head(es)[1], Head(es)[2])
         IN  IF ~u.merged THEN TRUE
             ELSE IsCyclicEdges(Tail(es), u.uf)

is_cyclic_undirected(g) == IsCyclicEdges(edge_references(g), UnionFindNew(g.n))

(***************************************************************************)
(* DfsSpace, with_dfs and has_path_connecting.  The space handed to a call *)
(* is None or Some(a DfsSpace); a call returns [res, dfs], dfs being the   *)
(* workspace as the call leaves it.                                        *)
(***************************************************************************)
\* DfsSpace::new
DfsSpaceNew == [dfs |-> DfsEmpty]

NoSpace == [some |-> FALSE]

SomeSpace(v) == [some |-> TRUE, v |-> v]

\* Create a Dfs if it's needed
with_dfs(space_arg) == IF space_arg.some THEN space_arg.v.dfs ELSE DfsEmpty

\* dfs.iter(g).any(|x| x == to)
RECURSIVE DfsAny(_, _, _)
DfsAny(g, dfs, to) ==
    LET r == DfsNext(g, dfs)
    IN  IF r.node = -1 THEN [res |-> FALSE, dfs |-> r.dfs]
        ELSE IF r.node = to THEN [res |-> TRUE, dfs |-> r.dfs]
        ELSE DfsAny(g, r.dfs, to)

\* the search that passes over the first node the traversal yields
has_path_connecting_pastFirst(g, from, to, dfs) ==
    DfsAny(g, DfsNext(g, DfsMoveTo(DfsReset(dfs), from)).dfs, to)

\* the search on the workspace as it was handed in
has_path_connecting_noReset(g, from, to, dfs) ==
    DfsAny(g, DfsMoveTo(dfs, from), to)

\* the closure given to with_dfs
has_path_connecting(g, from, to, dfs) ==
    DfsAny(g, DfsMoveTo(DfsReset(dfs), from), to)

(***************************************************************************)
(* What the properties speak of: edges, reachability, cycles, components.  *)
(***************************************************************************)
HasEdge(g, u, v) == \E i \in 1..Len(g.edges) : g.edges[i][1] = u /\ g.edges[i][2] = v

Succs(g, S) == {e[2] : e \in {x \in Range(g.edges) : x[1] \in S}}

\* the nodes reachable from a node of S by zero or more edges
RECURSIVE ReachableFrom(_, _)
ReachableFrom(g, S) ==
    LET T == S \cup Succs(g, S)
    IN  IF T = S THEN S ELSE ReachableFrom(g, T)

Reaches(g, u, v) == v \in ReachableFrom(g, {u})

\* w lies on a directed cycle: a self-loop, or a way back from a successor
OnCycle(g, w) == w \in ReachableFrom(g, Succs(g, {w}))

HasCycle(g) == \E w \in Nodes(g) : OnCycle(g, w)

HasSelfLoop(g) == \E w \in Nodes(g) : HasEdge(g, w, w)

\* the strongly connected components of g
SccOf(g, u) == {v \in Nodes(g) : Reaches(g, u, v) /\ Reaches(g, v, u)}

Sccs(g) == {SccOf(g, u) : u \in Nodes(g)}

\* a sequence of components as the set of their node sets
AsPartition(sccs) == {Range(sccs[i]) : i \in 1..Len(sccs)}

\* every node of g is in exactly one component, exactly once
EachNodeOnce(g, sccs) ==
    \A v \in Nodes(g) :
        Cardinality({<<i, j>> \in (1..Len(sccs)) \X (1..g.n) :
                        j <= Len(sccs[i]) /\ sccs[i][j] = v}) = 1

\* the place of v's component in the sequence
CompIndex(sccs, v) == CHOOSE i \in 1..Len(sccs) : v \in Range(sccs[i])

\* every edge between two components leaves the later one
ReverseTopological(g, sccs) ==
    \A e \in Range(g.edges) :
        CompIndex(sccs, e[1]) # CompIndex(sccs, e[2])
            => CompIndex(sccs, e[2]) < CompIndex(sccs, e[1])

(***************************************************************************)
(* Paths and cycles with weights.  A simple path lists distinct nodes,     *)
(* each joined to the next by an edge; it closes to a cycle when its last  *)
(* node is joined to one of its nodes.                                     *)
(***************************************************************************)
\* the simple paths that extend the simple path s, s itself among them
RECURSIVE PathsExtending(_, _)
PathsExtending(g, s) ==
    {s} \cup UNION {PathsExtending(g, Append(s, v)) :
                       v \in Succs(g, {Last(s)}) \ Range(s)}

SimplePathsFrom(g, source) == PathsExtending(g, <<source>>)

SetMin(S) == CHOOSE x \in S : \A y \in S : x <= y

\* the least weight of an edge from u to v
MinWeight(g, u, v) ==
    SetMin({e[3] : e \in {x \in Range(g.edges) : x[1] = u /\ x[2] = v}})

\* the least total weight of the edges along the nodes s[from], .., s[Len(s)]
RECURSIVE PathWeight(_, _, _)
PathWeight(g, s, from) ==
    IF from >= Len(s) THEN 0
    ELSE MinWeight(g, s[from], s[from + 1]) + PathWeight(g, s, from + 1)

\* consecutive nodes of s are joined by edges
IsPathOf(g, s) == \A i \in 1..(Len(s) - 1) : HasEdge(g, s[i], s[i + 1])

\* a cycle of negative total weight through a node reachable from source:
\* a simple path from source whose tail closes to such a cycle
NegativeCycleReachable(g, source) ==
    \E s \in SimplePathsFrom(g, source) :
        \E i \in 1..Len(s) :
            /\ HasEdge(g, Last(s), s[i])
            /\ PathWeight(g, s, i) + MinWeight(g, Last(s), s[i]) < 0

\* following predecessors from v for at most left steps ends at source
RECURSIVE LeadsBack(_, _, _, _)
LeadsBack(predecessor, v, source, left) ==
    IF v = source THEN TRUE
    ELSE IF left = 0 \/ predecessor[v] = -1 THEN FALSE
    ELSE LeadsBack(predecessor, predecessor[v], source, left - 1)

(***************************************************************************)
(* Costs of paths to a goal.                                               *)
(***************************************************************************)
\* the costs of the simple paths from v to a node of goals
CostsToGoal(g, v, goals) ==
    {PathWeight(g, s, 1) : s \in {x \in SimplePathsFrom(g, v) : Last(x) \in goals}}

\* the least cost from each node to a node of goals, Infinite without a path
LeastCosts(g, goals) ==
    [v \in Nodes(g) |->
        LET costs == CostsToGoal(g, v, goals)
        IN  IF costs = {} THEN Infinite ELSE SetMin(costs)]

\* h never exceeds the least remaining cost to a goal
Admissible(g, goals, h) ==
    LET least == LeastCosts(g, goals)
    IN  \A v \in Nodes(g) : h[v] <= least[v]

(***************************************************************************)
(* Spanning forests: the edges of a graph taken without direction.         *)
(***************************************************************************)
\* g with every edge usable both ways
Undirected(g) ==
    [n |-> g.n,
     edges |-> g.edges \o [i \in 1..Len(g.edges) |->
                              <<g.edges[i][2], g.edges[i][1], g.edges[i][3]>>]]

\* the connected components of g, each as its set of nodes
Components(g) == {ReachableFrom(Undirected(g), {u}) : u \in Nodes(g)}

RECURSIVE TotalWeight(_)
TotalWeight(es) == IF es = <<>> THEN 0 ELSE Head(es)[3] + TotalWeight(Tail(es))

\* the edges of g at the positions I, in the order of g
RECURSIVE EdgesAt(_, _, _)
EdgesAt(es, I, i) ==
    IF i > Len(es) THEN <<>>
    ELSE (IF i \in I THEN <<es[i]>> ELSE <<>>) \o EdgesAt(es, I, i + 1)

\* es joins the same nodes as g does, with no edge to spare: it has no
\* cycle exactly when it has |V| - c edges
SpanningForest(g, es) ==
    /\ Components([n |-> g.n, edges |-> es]) = Components(g)
    /\ Len(es) = g.n - Cardinality(Components(g))

Acyclic(g, es) ==
    Len(es) = g.n - Cardinality(Components([n |-> g.n, edges |-> es]))

Count(es, e) == Cardinality({i \in 1..Len(es) : es[i] = e})

\* the number of union calls that merge two sets, when the edges es are
\* taken in order
RECURSIVE MergeCount(_, _)
MergeCount(es, uf) ==
    IF es = <<>> THEN 0
    ELSE LET u == Union(uf, Head(es)[1], Head(es)[2])
         IN  (IF u.merged THEN 1 ELSE 0) + MergeCount(Tail(es), u.uf)

(***************************************************************************)
(* The state machine.  A behaviour builds a graph edge by edge (add_edge   *)
(* on a graph of 1 .. MaxNodes nodes, self-loops and parallel edges        *)
(* included) and then hands it to one algorithm, whose result is ret.      *)
(***************************************************************************)
NoCall == [op |-> "none"]

\* no MinSpanningTree iterator has been created
NoIterator == [created |-> FALSE]

EmptyGraph(n) == [n |-> n, edges |-> <<>>]

Init ==
    /\ \E n \in 1..MaxNodes : graph = EmptyGraph(n)
    /\ ret = NoCall
    /\ mst = NoIterator
    /\ dfs_space = DfsSpaceNew
    /\ tarjan = TarjanNew

\* Graph::add_edge(a, b, w)
add_edge(a, b, w) ==
    /\ ret = NoCall
    /\ graph' = [graph EXCEPT !.edges = Append(@, <<a, b, w>>)]
    /\ UNCHANGED <<ret, mst, dfs_space, tarjan>>

AddEdge ==
    /\ Len(graph.edges) < MaxEdges
    /\ \E a \in Nodes(graph), b \in Nodes(graph) : add_edge(a, b, 1)

CallToposort ==
    /\ ret = NoCall
    /\ ret' = [op |-> "toposort", out |-> toposort(graph, DfsEmpty)]
    /\ UNCHANGED <<graph, mst, dfs_space, tarjan>>

CallKosarajuScc ==
    /\ ret = NoCall
    /\ ret' = [op |-> "kosaraju_scc", out |-> kosaraju_scc(graph)]
    /\ UNCHANGED <<graph, mst, dfs_space, tarjan>>

CallTarjanScc ==
    /\ ret = NoCall
    /\ ret' = [op |-> "tarjan_scc", out |-> tarjan_scc(graph)]
    /\ UNCHANGED <<graph, mst, dfs_space, tarjan>>

\* the same with edge weights, negative ones among them
InitBF ==
    /\ \E n \in 1..BfMaxNodes : graph = EmptyGraph(n)
    /\ ret = NoCall
    /\ mst = NoIterator
    /\ dfs_space = DfsSpaceNew
    /\ tarjan = TarjanNew

AddWeightedEdge ==
    /\ Len(graph.edges) < BfMaxEdges
    /\ \E a \in Nodes(graph), b \in Nodes(graph), w \in Weights :
           add_edge(a, b, w)

CallBellmanFord ==
    /\ ret = NoCall
    /\ \E source \in Nodes(graph) :
           ret' = [op |-> "bellman_ford", source |-> source,
                   out |-> bellman_ford(graph, source)]
    /\ UNCHANGED <<graph, mst, dfs_space, tarjan>>

NextBF ==
    \/ AddWeightedEdge
    \/ CallBellmanFord

SpecBF == InitBF /\ [][NextBF]_vars

\* the same with non-negative edge costs, for astar
InitAstar ==
    /\ \E n \in 1..AstarMaxNodes : graph = EmptyGraph(n)
    /\ ret = NoCall
    /\ mst = NoIterator
    /\ dfs_space = DfsSpaceNew
    /\ tarjan = TarjanNew

AddCostEdge ==
    /\ Len(graph.edges) < AstarMaxEdges
    /\ \E a \in Nodes(graph), b \in Nodes(graph), w \in Costs :
           add_edge(a, b, w)

CallAstar ==
    /\ ret = NoCall
    /\ \E start \in Nodes(graph), goals \in SUBSET Nodes(graph),
          h \in [Nodes(graph) -> Estimates] :
           \E out \in astar(graph, start, goals, h) :
               ret' = [op |-> "astar", start |-> start, goals |-> goals,
                       h |-> h, out |-> out]
    /\ UNCHANGED <<graph, mst, dfs_space, tarjan>>

NextAstar ==
    \/ AddCostEdge
    \/ CallAstar

SpecAstar == InitAstar /\ [][NextAstar]_vars

\* astar on the graphs without self-loops and parallel edges, their edges
\* added in ascending order of (source, target), with one goal node and an
\* admissible estimate
InitAstarSimple ==
    /\ \E n \in 1..SimpleMaxNodes : graph = EmptyGraph(n)
    /\ ret = NoCall
    /\ mst = NoIterator
    /\ dfs_space = DfsSpaceNew
    /\ tarjan = TarjanNew

AddSimpleEdge ==
    /\ Len(graph.edges) < SimpleMaxEdges
    /\ \E a \in Nodes(graph), b \in Nodes(graph), w \in Costs :
           /\ a # b
           /\ graph.edges # <<>> =>
                  LET e == Last(graph.edges)
                  IN  e[1] < a \/ (e[1] = a /\ e[2] < b)
           /\ add_edge(a, b, w)

CallAstarAdmissible ==
    /\ ret = NoCall
    /\ \E goal \in Nodes(graph) :
           LET least == LeastCosts(graph, {goal})
           IN  \E h \in [Nodes(graph) -> Estimates] :
                   /\ \A v \in Nodes(graph) : h[v] <= least[v]
                   /\ \E start \in Nodes(graph) :
                          \E out \in astar(graph, start, {goal}, h) :
                              ret' = [op |-> "astar", start |-> start,
                                      goals |-> {goal}, h |-> h, out |-> out]
    /\ UNCHANGED <<graph, mst, dfs_space, tarjan>>

NextAstarSimple ==
    \/ AddSimpleEdge
    \/ CallAstarAdmissible

SpecAstarSimple == InitAstarSimple /\ [][NextAstarSimple]_vars

\* the spanning forest iterator on graphs with edge weights: ret.produced
\* lists the elements next() has returned so far
InitMst ==
    /\ \E n \in 1..MstMaxNodes : graph = EmptyGraph(n)
    /\ ret = NoCall
    /\ mst = NoIterator
    /\ dfs_space = DfsSpaceNew
    /\ tarjan = TarjanNew

AddMstEdge ==
    /\ Len(graph.edges) < MstMaxEdges
    /\ \E a \in Nodes(graph), b \in Nodes(graph), w \in MstWeights :
           add_edge(a, b, w)

CallMinSpanningTree ==
    /\ ret = NoCall
    /\ mst' = min_spanning_tree(graph)
    /\ ret' = [op |-> "min_spanning_tree", produced |-> <<>>, ended |-> FALSE]
    /\ UNCHANGED <<graph, dfs_space, tarjan>>

CallNext ==
    /\ mst.created
    /\ \E r \in MstNext(mst) :
           /\ mst' = r.it
           /\ ret' = IF r.item = None
                     THEN [ret EXCEPT !.ended = TRUE]
                     ELSE [ret EXCEPT !.produced = Append(@, r.item)]
    /\ UNCHANGED <<graph, dfs_space, tarjan>>

NextMst ==
    \/ AddMstEdge
    \/ CallMinSpanningTree
    \/ CallNext

SpecMst == InitMst /\ [][NextMst]_vars

\* condensation of a graph built edge by edge
CallCondensation ==
    /\ ret = NoCall
    /\ \E make_acyclic \in BOOLEAN :
           ret' = [op |-> "condensation", make_acyclic |-> make_acyclic,
                   out |-> condensation(graph, make_acyclic)]
    /\ UNCHANGED <<graph, mst, dfs_space, tarjan>>

NextCondensation ==
    \/ AddEdge
    \/ CallCondensation

SpecCondensation == Init /\ [][NextCondensation]_vars

\* undirected simple graphs: an edge joins two different nodes a < b, and
\* the edges are added in ascending order, so that no pair is joined twice
InitCliques ==
    /\ \E n \in 1..CliqueMaxNodes : graph = EmptyGraph(n)
    /\ ret = NoCall
    /\ mst = NoIterator
    /\ dfs_space = DfsSpaceNew
    /\ tarjan = TarjanNew

AddUndirectedEdge ==
    /\ Len(graph.edges) < CliqueMaxEdges
    /\ \E a \in Nodes(graph), b \in Nodes(graph) :
           /\ a < b
           /\ graph.edges # <<>> =>
                  LET e == Last(graph.edges)
                  IN  e[1] < a \/ (e[1] = a /\ e[2] < b)
           /\ add_edge(a, b, 1)

CallMaximalCliques ==
    /\ ret = NoCall
    /\ \E out \in maximal_cliques(graph) :
           ret' = [op |-> "maximal_cliques", out |-> out]
    /\ UNCHANGED <<graph, mst, dfs_space, tarjan>>

NextCliques ==
    \/ AddUndirectedEdge
    \/ CallMaximalCliques

SpecCliques == InitCliques /\ [][NextCliques]_vars

\* is_bipartite_undirected on a graph built edge by edge and taken as a
\* directed or as an undirected graph
CallIsBipartiteUndirected ==
    /\ ret = NoCall
    /\ \E start \in Nodes(graph), directed \in BOOLEAN :
           ret' = [op |-> "is_bipartite_undirected", start |-> start,
                   directed |-> directed,
                   out |-> is_bipartite_undirected(Typed(graph, directed), start)]
    /\ UNCHANGED <<graph, mst, dfs_space, tarjan>>

NextBipartite ==
    \/ AddEdge
    \/ CallIsBipartiteUndirected

SpecBipartite == Init /\ [][NextBipartite]_vars

\* the two algorithms over the edge list, on a graph built edge by edge
CallConnectedComponents ==
    /\ ret = NoCall
    /\ ret' = [op |-> "connected_components", out |-> connected_components(graph)]
    /\ UNCHANGED <<graph, mst, dfs_space, tarjan>>

CallIsCyclicUndirected ==
    /\ ret = NoCall
    /\ ret' = [op |-> "is_cyclic_undirected", out |-> is_cyclic_undirected(graph)]
    /\ UNCHANGED <<graph, mst, dfs_space, tarjan>>

NextConnectivity ==
    \/ AddEdge
    \/ CallConnectedComponents
    \/ CallIsCyclicUndirected

SpecConnectivity == Init /\ [][NextConnectivity]_vars

\* has_path_connecting with space = None
CallHasPathConnecting ==
    /\ ret = NoCall
    /\ \E from \in Nodes(graph), to \in Nodes(graph) :
           ret' = [op |-> "has_path_connecting", from |-> from, to |-> to,
                   out |-> has_path_connecting(graph, from, to,
                                               with_dfs(NoSpace)).res]
    /\ UNCHANGED <<graph, mst, dfs_space, tarjan>>

NextPath ==
    \/ AddEdge
    \/ CallHasPathConnecting

SpecPath == Init /\ [][NextPath]_vars

\* calls that share the DfsSpace space, one after another on the graph as
\* built; ret.dirty tells whether the space handed in held nodes on its
\* stack
InitSpace ==
    /\ \E n \in 1..SpaceMaxNodes : graph = EmptyGraph(n)
    /\ ret = NoCall
    /\ mst = NoIterator
    /\ dfs_space = DfsSpaceNew
    /\ tarjan = TarjanNew

AddSpaceEdge ==
    /\ Len(graph.edges) < SpaceMaxEdges
    /\ \E a \in Nodes(graph), b \in Nodes(graph) : add_edge(a, b, 1)

CallToposortShared ==
    /\ LET r == toposort(graph, with_dfs(SomeSpace(dfs_space)))
       IN  /\ ret' = [op |-> "toposort", dirty |-> dfs_space.dfs.stack # <<>>,
                      out |-> r.res]
           /\ dfs_space' = [dfs |-> r.dfs]
    /\ UNCHANGED <<graph, mst, tarjan>>

CallHasPathConnectingShared ==
    /\ \E from \in Nodes(graph), to \in Nodes(graph) :
           LET r == has_path_connecting(graph, from, to,
                                        with_dfs(SomeSpace(dfs_space)))
           IN  /\ ret' = [op |-> "has_path_connecting", from |-> from,
                          to |-> to, dirty |-> dfs_space.dfs.stack # <<>>,
                          out |-> r.res]
               /\ dfs_space' = [dfs |-> r.dfs]
    /\ UNCHANGED <<graph, mst, tarjan>>

NextSpace ==
    \/ AddSpaceEdge
    \/ CallToposortShared
    \/ CallHasPathConnectingShared

SpecSpace == InitSpace /\ [][NextSpace]_vars

\* one TarjanScc engine (tarjan) run on one graph after another: a graph is
\* built, run is called on it, and the engine is then handed the next
\* graph, of any node count.  ret.index is the discovery counter the run
\* started from and ret.debug_assert what the assertion that ends run
\* evaluates to.
InitEngine ==
    /\ \E n \in 1..EngineMaxNodes : graph = EmptyGraph(n)
    /\ ret = NoCall
    /\ mst = NoIterator
    /\ dfs_space = DfsSpaceNew
    /\ tarjan = TarjanNew

AddEngineEdge ==
    /\ Len(graph.edges) < EngineMaxEdges
    /\ \E a \in Nodes(graph), b \in Nodes(graph) : add_edge(a, b, 1)

\* tarjan.run(&graph, f), f collecting the slices it is given
CallRun ==
    /\ ret = NoCall
    /\ LET r == TarjanRun(tarjan, graph)
       IN  /\ ret' = [op |-> "run", index |-> tarjan.index,
                      debug_assert |-> r.engine.stack = <<>>,
                      out |-> r.out]
           /\ tarjan' = r.engine
    /\ UNCHANGED <<graph, mst, dfs_space>>

\* the caller turns to another graph, to run the same engine on it
NextGraph ==
    /\ ret.op = "run"
    /\ tarjan.index < EngineMaxIndex
    /\ \E n \in 1..EngineMaxNodes : graph' = EmptyGraph(n)
    /\ ret' = NoCall
    /\ UNCHANGED <<mst, dfs_space, tarjan>>

NextEngine ==
    \/ AddEngineEdge
    \/ CallRun
    \/ NextGraph

SpecEngine == InitEngine /\ [][NextEngine]_vars

Next ==
    \/ AddEdge
    \/ CallToposort
    \/ CallKosarajuScc
    \/ CallTarjanScc

Spec == Init /\ [][Next]_vars

ToposortOk == ret.op = "toposort" /\ ret.out.res.tag = "Ok"

ToposortErr == ret.op = "toposort" /\ ret.out.res.tag = "Err"

(***************************************************************************)
(* C1: when toposort returns Ok(L), L holds every node of the graph        *)
(* exactly once and every edge (u, v) has u at a smaller position than v.  *)
(***************************************************************************)
C1_ToposortOrder ==
    ToposortOk =>
        LET L == ret.out.res.val
        IN  /\ Len(L) = graph.n
            /\ Range(L) = Nodes(graph)
            /\ \A i \in 1..Len(L), j \in 1..Len(L) :
                   HasEdge(graph, L[i], L[j]) => i < j

\* an order that is not the enumeration order, on a graph with a path
C1_Witness ==
    /\ ToposortOk
    /\ Len(graph.edges) >= 2
    /\ ret.out.res.val # node_identifiers(graph)
    /\ \E u \in Nodes(graph), v \in Nodes(graph), w \in Nodes(graph) :
           HasEdge(graph, u, v) /\ HasEdge(graph, v, w)

(***************************************************************************)
(* C2: toposort returns Err(Cycle) exactly when the graph has a directed   *)
(* cycle, a self-loop being one; on an acyclic graph it returns Ok.        *)
(***************************************************************************)
C2_ToposortErrIffCycle ==
    ret.op = "toposort" => (ret.out.res.tag = "Err" <=> HasCycle(graph))

\* a cycle without any self-loop is refused (the exit of the second phase)
C2_Witness == ToposortErr /\ ~HasSelfLoop(graph)

(***************************************************************************)
(* C3: the node of a returned Cycle lies on a directed cycle of the graph, *)
(* whether it comes from the self-loop exit or from the second phase.      *)
(***************************************************************************)
C3_CycleWitnessOnCycle ==
    ToposortErr => OnCycle(graph, ret.out.res.val)

\* the second phase names a node of a cycle of three nodes
C3_Witness ==
    /\ ToposortErr
    /\ ~HasSelfLoop(graph)
    /\ Cardinality(SccOf(graph, ret.out.res.val)) = 3

(***************************************************************************)
(* C4: kosaraju_scc and tarjan_scc return the same partition of the nodes, *)
(* the partition into strongly connected components, and every node is in  *)
(* exactly one component.                                                  *)
(***************************************************************************)
C4_SccPartition ==
    /\ ret.op = "kosaraju_scc" =>
           /\ AsPartition(ret.out) = Sccs(graph)
           /\ EachNodeOnce(graph, ret.out)
           /\ AsPartition(ret.out) = AsPartition(tarjan_scc(graph))
    /\ ret.op = "tarjan_scc" =>
           /\ AsPartition(ret.out) = Sccs(graph)
           /\ EachNodeOnce(graph, ret.out)
           /\ AsPartition(ret.out) = AsPartition(kosaraju_scc(graph))

\* a component of two nodes beside another component, self-loop included
C4_Witness ==
    /\ ret.op = "tarjan_scc"
    /\ Len(ret.out) = 2
    /\ \E i \in 1..2 : Len(ret.out[i]) = 2
    /\ HasSelfLoop(graph)

(***************************************************************************)
(* C5: both algorithms emit the components in reverse topological order:   *)
(* for an edge (u, v) between two components, v's component comes first.   *)
(***************************************************************************)
C5_SccReverseTopological ==
    ret.op \in {"kosaraju_scc", "tarjan_scc"} =>
        ReverseTopological(graph, ret.out)

\* three components in a chain whose order is not the enumeration order
C5_Witness ==
    /\ ret.op = "kosaraju_scc"
    /\ Len(ret.out) = 3
    /\ HasEdge(graph, 0, 1) /\ HasEdge(graph, 1, 2)

BellmanFordOk == ret.op = "bellman_ford" /\ ret.out.tag = "Ok"

BellmanFordErr == ret.op = "bellman_ford" /\ ret.out.tag = "Err"

C7_DistancesAndPredecessors ==
    BellmanFordOk =>
        LET distance == ret.out.val.distance
            predecessor == ret.out.val.predecessor
            source == ret.source
            paths == SimplePathsFrom(graph, source)
            pathsTo(v) == {s \in paths : Last(s) = v}
        IN  /\ distance[source] = 0
            /\ predecessor[source] = -1
            /\ \A v \in Nodes(graph) :
                   IF pathsTo(v) # {}
                   THEN /\ distance[v] =
                               SetMin({PathWeight(graph, s, 1) : s \in pathsTo(v)})
                        /\ v # source =>
                               /\ predecessor[v] \in Nodes(graph)
                               /\ \E e \in Range(graph.edges) :
                                      /\ e[1] = predecessor[v]
                                      /\ e[2] = v
                                      /\ distance[e[1]] + e[3] = distance[v]
                               /\ LeadsBack(predecessor, v, source, graph.n)
                   ELSE distance[v] = Infinite /\ predecessor[v] = -1

\* a negative distance reached over two edges
C7_Witness ==
    /\ BellmanFordOk
    /\ \E v \in Nodes(graph) :
           /\ ret.out.val.distance[v] < 0
           /\ ret.out.val.predecessor[v] \notin {-1, ret.source}

AstarSome == ret.op = "astar" /\ ret.out.tag = "Some"

(***************************************************************************)
(* C8: with non-negative edge costs and an admissible heuristic, the path  *)
(* astar returns costs as little as any path from start to a goal.         *)
(***************************************************************************)
C8_AdmissibleOptimal ==
    (AstarSome /\ IsPathOf(graph, ret.out.path)
        /\ Admissible(graph, ret.goals, ret.h)) =>
        PathWeight(graph, ret.out.path, 1)
            = SetMin(CostsToGoal(graph, ret.start, ret.goals))

(***************************************************************************)
(* C9: astar returns Some(path) exactly when a goal is reachable from      *)
(* start, start itself included; the path begins at start, ends at a goal  *)
(* and joins consecutive nodes by edges; the reconstruction ends.          *)
(***************************************************************************)
C9_PathIffReachable ==
    ret.op = "astar" =>
        /\ ret.out.tag # "Endless"
        /\ ret.out.tag = "Some"
               <=> ReachableFrom(graph, {ret.start}) \cap ret.goals # {}
        /\ ret.out.tag = "Some" =>
               /\ ret.out.path[1] = ret.start
               /\ Last(ret.out.path) \in ret.goals
               /\ IsPathOf(graph, ret.out.path)

\* a path of three nodes although an edge of the graph leads back into it
C9_Witness ==
    /\ AstarSome
    /\ Len(ret.out.path) = 3
    /\ HasCycle(graph)
    /\ \E v \in Nodes(graph) : ret.h[v] # 0

(***************************************************************************)
(* min_spanning_tree                                                       *)
(***************************************************************************)
MstEnded == ret.op = "min_spanning_tree" /\ ret.ended

\* the Edge elements produced so far, as edges <<source, target, weight>>
RECURSIVE EdgesOf(_)
EdgesOf(elements) ==
    IF elements = <<>> THEN <<>>
    ELSE (IF Head(elements).type = "Edge"
          THEN <<<<Head(elements).source, Head(elements).target,
                   Head(elements).weight>>>>
          ELSE <<>>) \o EdgesOf(Tail(elements))

\* C10: once the iterator is exhausted, the Edge elements it produced are
\* edges of the graph, have no cycle, join exactly the nodes the graph
\* joins, are |V| - c in number, and no spanning forest of the graph weighs
\* less.
C10_MinimumSpanningForest ==
    MstEnded =>
        LET forest == EdgesOf(ret.produced)
        IN  /\ \A i \in 1..Len(ret.produced) :
                   ret.produced[i].type \in {"Node", "Edge"}
            /\ \A e \in Range(forest) :
                   Count(forest, e) <= Count(graph.edges, e)
            /\ Acyclic(graph, forest)
            /\ Components([n |-> graph.n, edges |-> forest]) = Components(graph)
            /\ Len(forest) = graph.n - Cardinality(Components(graph))
            /\ \A I \in SUBSET (1..Len(graph.edges)) :
                   SpanningForest(graph, EdgesAt(graph.edges, I, 1)) =>
                       TotalWeight(forest) <= TotalWeight(EdgesAt(graph.edges, I, 1))

\* an exhausted iterator that produced an edge and left a heavier one out
C10_Witness ==
    /\ MstEnded
    /\ \E i \in 1..Len(graph.edges) :
           /\ Count(EdgesOf(ret.produced), graph.edges[i]) = 0
           /\ graph.edges[i][1] # graph.edges[i][2]
           /\ \E e \in Range(EdgesOf(ret.produced)) : e[3] < graph.edges[i][3]

\* the number of Node elements among the elements produced
RECURSIVE NodeCountOf(_)
NodeCountOf(elements) ==
    IF elements = <<>> THEN 0
    ELSE (IF Head(elements).type = "Node" THEN 1 ELSE 0)
         + NodeCountOf(Tail(elements))

\* what every sequence of elements produced so far looks like
MstSequence ==
    ret.op = "min_spanning_tree" =>
        LET produced == ret.produced
            k == NodeCountOf(produced)
            ids == node_identifiers(graph)
        IN  /\ k <= Len(ids)
            /\ \A i \in 1..k : produced[i] = NodeElement(NodeWeight(ids[i]))
            /\ \A i \in (k + 1)..Len(produced) :
                   /\ produced[i].type = "Edge"
                   /\ k = Len(ids)
                   /\ produced[i].source \in 0..(k - 1)
                   /\ produced[i].target \in 0..(k - 1)
                   /\ HasEdge(graph, ids[produced[i].source + 1],
                                     ids[produced[i].target + 1])
                   /\ Count(graph.edges,
                            <<ids[produced[i].source + 1],
                              ids[produced[i].target + 1],
                              produced[i].weight>>) > 0
                   /\ i < Len(produced) =>
                          produced[i].weight <= produced[i + 1].weight
            /\ ret.ended => k = Len(ids)

\* after next() has returned None, a call of next() returns None again
MstFused ==
    (ret.op = "min_spanning_tree" /\ ret.ended) =>
        /\ ret'.op = "min_spanning_tree"
        /\ ret'.ended
        /\ ret'.produced = ret.produced

\* C11: in every sequence of next() calls, the Node elements come first,
\* one per node in the order of the node identifiers; the Edge elements
\* follow in non-decreasing weight, each naming the emission positions of
\* the ends of an edge of the graph, so no call panics; and once next() has
\* returned None every later call returns None.
C11_NextSequence == [](MstSequence) /\ [][MstFused]_vars

\* an exhausted iterator that produced two edges of different weights, one
\* of them from a higher node to a lower one
C11_Witness ==
    /\ MstEnded
    /\ Len(EdgesOf(ret.produced)) = 2
    /\ EdgesOf(ret.produced)[1][3] < EdgesOf(ret.produced)[2][3]
    /\ \E e \in Range(EdgesOf(ret.produced)) : e[1] > e[2]

(***************************************************************************)
(* condensation                                                            *)
(***************************************************************************)
Condensed(make_acyclic) ==
    ret.op = "condensation" /\ ret.make_acyclic = make_acyclic

\* C12: condensation(g, true) of a directed graph has no self-loop, at most
\* one edge from one node to another, and no directed cycle, so that
\* toposort returns Ok on it.
C12_CondensationAcyclic ==
    Condensed(TRUE) =>
        /\ ~HasSelfLoop(ret.out)
        /\ \A i, j \in 1..Len(ret.out.edges) :
               (ret.out.edges[i][1] = ret.out.edges[j][1]
                    /\ ret.out.edges[i][2] = ret.out.edges[j][2]) => i = j
        /\ ~HasCycle(ret.out)
        /\ toposort(ret.out, DfsEmpty).res.tag = "Ok"

\* an acyclic condensation of a graph with a self-loop and two parallel
\* edges from one component to another, which keeps one edge only
C12_Witness ==
    /\ Condensed(TRUE)
    /\ HasSelfLoop(graph)
    /\ ret.out.n = 2
    /\ Len(ret.out.edges) = 1
    /\ Cardinality({i \in 1..Len(graph.edges) :
           CompIndex(kosaraju_scc(graph), graph.edges[i][1])
               # CompIndex(kosaraju_scc(graph), graph.edges[i][2])}) = 2

(***************************************************************************)
(* maximal_cliques                                                         *)
(***************************************************************************)
Adjacent(g, a, b) == HasEdge(g, a, b) \/ HasEdge(g, b, a)

IsClique(g, c) == \A a, b \in c : a # b => Adjacent(g, a, b)

\* the non-empty cliques that no vertex outside is adjacent to all of
MaximalCliquesOf(g) ==
    {c \in SUBSET Nodes(g) :
        /\ c # {}
        /\ IsClique(g, c)
        /\ \A v \in Nodes(g) \ c : \E a \in c : ~Adjacent(g, v, a)}

\* C13: on an undirected simple graph maximal_cliques returns the maximal
\* cliques, each once: every returned set is pairwise adjacent and cannot
\* be extended, every maximal clique is returned, none twice, and every
\* vertex is in a returned set.
C13_MaximalCliques ==
    ret.op = "maximal_cliques" =>
        /\ \A i \in 1..Len(ret.out) :
               /\ IsClique(graph, ret.out[i])
               /\ \A v \in Nodes(graph) \ ret.out[i] :
                      \E a \in ret.out[i] : ~Adjacent(graph, v, a)
        /\ Range(ret.out) = MaximalCliquesOf(graph)
        /\ \A i, j \in 1..Len(ret.out) : ret.out[i] = ret.out[j] => i = j
        /\ \A v \in Nodes(graph) : \E i \in 1..Len(ret.out) : v \in ret.out[i]

\* a result with a triangle, a clique of two nodes that shares a node with
\* it, and more than one clique in all
C13_Witness ==
    /\ ret.op = "maximal_cliques"
    /\ \E i, j \in 1..Len(ret.out) :
           /\ Cardinality(ret.out[i]) = 3
           /\ Cardinality(ret.out[j]) = 2
           /\ ret.out[i] \cap ret.out[j] # {}

(***************************************************************************)
(* is_bipartite_undirected                                                 *)
(***************************************************************************)
BipartiteCalled(directed) ==
    ret.op = "is_bipartite_undirected" /\ ret.directed = directed

\* the nodes joined to v by edges taken without direction
ComponentOf(g, v) == ReachableFrom(Undirected(g), {v})

\* the nodes of S can be given two colours so that no edge inside S joins
\* two nodes of one colour
TwoColourable(g, S) ==
    \E colour \in [S -> {"red", "blue"}] :
        \A i \in 1..Len(g.edges) :
            (g.edges[i][1] \in S /\ g.edges[i][2] \in S) =>
                colour[g.edges[i][1]] # colour[g.edges[i][2]]

\* C14: on an undirected graph is_bipartite_undirected(g, start) returns
\* true exactly when the connected component of start can be given two
\* colours (it has no odd cycle and no self-loop), and it returns: neither
\* the assertion on a node taken from the worklist nor the panic fails.
C14_BipartiteIffTwoColourable ==
    BipartiteCalled(FALSE) =>
        ret.out = Returned(TwoColourable(graph, ComponentOf(graph, ret.start)))

\* false returned on a triangle, whose edges do not all leave the start
C14_Witness ==
    /\ BipartiteCalled(FALSE)
    /\ ret.out = Returned(FALSE)
    /\ ~HasSelfLoop(graph)
    /\ Cardinality(ComponentOf(graph, ret.start)) = 3
    /\ \A i \in 1..Len(graph.edges) : graph.edges[i][1] # ret.start

\* C15: on a directed graph, whose neighbour iteration yields the outgoing
\* neighbours only, is_bipartite_undirected returns what it returns on the
\* undirected graph of the same nodes and edges.
C15_DirectedAsUndirected ==
    BipartiteCalled(TRUE) =>
        ret.out = is_bipartite_undirected(Typed(graph, FALSE), ret.start)

(***************************************************************************)
(* connected_components and is_cyclic_undirected                           *)
(***************************************************************************)
\* C16: connected_components returns the number of weakly connected
\* components, which is n less the number of union calls over the edge
\* list that merged two sets; the count of the graph with one more edge,
\* whichever it is, is not greater.
C16_ComponentCount ==
    ret.op = "connected_components" =>
        /\ ret.out = Cardinality(Components(graph))
        /\ ret.out = graph.n - MergeCount(graph.edges, UnionFindNew(graph.n))
        /\ \A a, b \in Nodes(graph) :
               connected_components(GraphAddEdge(graph, a, b, 1)) <= ret.out

\* two components counted in a graph of three nodes, the first and the last
\* of them joined by an edge from the last
C16_Witness ==
    /\ ret.op = "connected_components"
    /\ ret.out = 2
    /\ HasEdge(graph, 2, 0)

\* C17: is_cyclic_undirected returns true exactly when, taking the edges in
\* order from singleton sets, a union finds the ends of an edge in one set
\* already; it returns true on every graph with a self-loop and false on
\* every forest without self-loops and parallel edges.
C17_CyclicIffUnionFails ==
    ret.op = "is_cyclic_undirected" =>
        /\ ret.out = (MergeCount(graph.edges, UnionFindNew(graph.n))
                          < Len(graph.edges))
        /\ HasSelfLoop(graph) => ret.out
        /\ Acyclic(graph, graph.edges) => ~ret.out
        /\ ~Acyclic(graph, graph.edges) => ret.out

\* true returned on a triangle whose edges do not form a directed cycle
C17_Witness ==
    /\ ret.op = "is_cyclic_undirected"
    /\ ret.out
    /\ ~HasCycle(graph)
    /\ Cardinality({{graph.edges[i][1], graph.edges[i][2]} :
                       i \in 1..Len(graph.edges)}) = 3
    /\ ~HasSelfLoop(graph)

(***************************************************************************)
(* has_path_connecting and the shared DfsSpace                             *)
(***************************************************************************)
HasPathCalled == ret.op = "has_path_connecting"

\* C18: has_path_connecting(g, from, to, space) returns true exactly when
\* to is reachable from from by a directed path of zero or more edges, so
\* always when from = to.
C18_PathIffReachable ==
    HasPathCalled =>
        /\ ret.out = Reaches(graph, ret.from, ret.to)
        /\ ret.from = ret.to => ret.out

\* true returned for two different nodes that no single edge joins and
\* that have no path back
C18_Witness ==
    /\ HasPathCalled
    /\ ret.out
    /\ ret.from # ret.to
    /\ ~HasEdge(graph, ret.from, ret.to)
    /\ ~Reaches(graph, ret.to, ret.from)

\* C20: a call of toposort or has_path_connecting on a DfsSpace that earlier
\* calls have used, also one that toposort left with nodes on its stack
\* when it returned Err, returns what the same call returns with
\* space = None, and leaves the workspace as that call leaves its own.
C20_SharedSpaceAsNone ==
    /\ ret.op = "toposort" =>
           /\ ret.out = toposort(graph, with_dfs(NoSpace)).res
           /\ dfs_space.dfs = toposort(graph, with_dfs(NoSpace)).dfs
    /\ ret.op = "has_path_connecting" =>
           /\ ret.out = has_path_connecting(graph, ret.from, ret.to,
                                            with_dfs(NoSpace)).res
           /\ dfs_space.dfs = has_path_connecting(graph, ret.from, ret.to,
                                              with_dfs(NoSpace)).dfs

\* has_path_connecting returning false on a graph with a cycle, called with
\* a space that an earlier call left with nodes on its stack
C20_Witness ==
    /\ HasPathCalled
    /\ ret.dirty
    /\ ~ret.out
    /\ HasCycle(graph)
    /\ ret.to \notin dfs_space.dfs.discovered

(***************************************************************************)
(* The order of the components of tarjan_scc and of kosaraju_scc           *)
(***************************************************************************)
\* the components of a sequence, each as the set of its nodes
AsSets(sccs) == [i \in 1..Len(sccs) |-> Range(sccs[i])]

\* of any two components one has a path to the other, so that there is one
\* reverse topological order only
ChainOfComponents(g) ==
    \A u, v \in Nodes(g) : Reaches(g, u, v) \/ Reaches(g, v, u)

\* C19 as stated: tarjan_scc returns the components in the order in which
\* kosaraju_scc returns them, a component compared as the set of its nodes.
C19_SameOrder ==
    ret.op = "tarjan_scc" => AsSets(ret.out) = AsSets(kosaraju_scc(graph))

\* C19 amended: tarjan_scc and kosaraju_scc return as many components, the
\* same ones as sets of nodes, each sequence in a reverse topological order
\* of its own; the two orders are the same when of any two components one
\* has a path to the other.
C19_SameComponents ==
    ret.op = "tarjan_scc" =>
        LET k == kosaraju_scc(graph)
        IN  /\ Len(ret.out) = Len(k)
            /\ Range(AsSets(ret.out)) = Range(AsSets(k))
            /\ ReverseTopological(graph, ret.out)
            /\ ReverseTopological(graph, k)
            /\ ChainOfComponents(graph) => AsSets(ret.out) = AsSets(k)

\* three components in a chain, returned in the one order by both
C19_Witness ==
    /\ ret.op = "tarjan_scc"
    /\ Len(ret.out) = 3
    /\ ChainOfComponents(graph)
    /\ AsSets(ret.out) = AsSets(kosaraju_scc(graph))
    /\ ~HasEdge(graph, 0, 1)

(***************************************************************************)
(* C21: however many graphs one TarjanScc engine has been run on, when a   *)
(* run returns the stack of candidates is empty (the assertion that ends   *)
(* run holds) and no node record has on_stack set; the discovery counter   *)
(* is not reset, it goes on from where the run before left it, and yet the *)
(* callback is given exactly the sequence of components a newly created    *)
(* engine gives it on the same graph.                                      *)
(***************************************************************************)
NoneOnStack == \A i \in DOMAIN tarjan.nodes : ~tarjan.nodes[i].on_stack

C21_RunAsFresh ==
    ret.op = "run" =>
        /\ ret.debug_assert
        /\ tarjan.stack = <<>>
        /\ NoneOnStack
        /\ DOMAIN tarjan.nodes = Nodes(graph)
        /\ tarjan.index = ret.index + graph.n
        /\ ret.out = TarjanRun(TarjanNew, graph).out

\* a later run, its counter at 2 or more when it starts, on the cycle
\* 0 -> 1 -> 0: both nodes are on the stack together, node 1 takes the
\* index of node 0 (which is not 0) as its lowlink, and they leave the
\* stack as one component
C21_Witness ==
    /\ ret.op = "run"
    /\ ret.index >= 2
    /\ ret.out = <<<<0, 1>>>>
    /\ tarjan.nodes[1].lowlink = ret.index
    /\ tarjan.nodes[1].index = ret.index + 1

====
